---- MODULE Spec2Model ----
(***************************************************************************)
(* YummyCraft launcher (src/main.py): the build bootstrap and mod           *)
(* reconciliation engine as a state machine.                                *)
(*                                                                          *)
(* Every play_game call starts a thread that executes run(): the version    *)
(* gate (check_fabric_version, download_fabric_base), then the mod          *)
(* reconciliation (check_mods, download_mod), then the launch.  A thread    *)
(* takes one step per I/O operation.  The builds directory and the remote   *)
(* server are shared state.  delete_build runs on the caller's thread.      *)
(*                                                                          *)
(* A file's content is the sequence of the 1024-byte chunks written to it.  *)
(* The server is taken to be coherent: the digest the manifest lists for a  *)
(* mod is the digest of the body it serves for that mod, and the archive    *)
(* of a build holds the files of the version ArchiveVersion and no mod.     *)
(* An extraction that fails is taken to have extracted nothing.             *)
(***************************************************************************)
EXTENDS Integers, Sequences, FiniteSets, TLC

\* ----------------------------------------------------------------- bounds

\* play_game calls issued in one behaviour (each starts one thread)
MaxCalls == 2
\* delete_build calls issued in one behaviour
MaxDeletes == 2
\* chunks in the body of base_fabric.zip
ArchiveLen == 2

Calls == 1..MaxCalls
Builds == {"A", "B"}
ModNames == {"a.jar", "b.jar", "c.jar"}
Versions == {"fabric-1", "fabric-2"}
\* the version id held by the archive the server streams for a build
ArchiveVersion == "fabric-1"
\* bodies the server may hold for a mod: one or two chunks
Bodies == {<<1>>, <<1, 2>>}
ZipName == "base_fabric.zip"

\* Python's None as the result of dict.get: differs from every digest
None == 0

VARIABLES
    fs,        \* builds_path: per build, the directory tree
    remote,    \* the server: per build, mod name -> body served
    run,       \* per play_game call, the thread's position and locals
    deletes,   \* delete_build calls issued so far
    last_delete \* the latest delete_build call: its build and how it ended

vars == <<fs, remote, run, deletes, last_delete>>

\* ------------------------------------------------------------ pure helpers

\* hashlib.sha256(...).hexdigest(): a collision-free encoding of the content
\* (chunks are 0, 1 or 2; 0 is the zero fill of a hole); never None
RECURSIVE SHA256(_)
SHA256(s) == IF s = <<>> THEN 1 ELSE Head(s) + 3 * SHA256(Tail(s))

\* dict.get(key): the value, or None
Get(d, k) == IF k \in DOMAIN d THEN d[k] ELSE None

\* the empty dict
EmptyDict == [k \in {} |-> None]

\* d without key k
Without(d, k) == [x \in (DOMAIN d) \ {k} |-> d[x]]

\* d with key k set to v
With(d, k, v) == [x \in (DOMAIN d) \cup {k} |-> IF x = k THEN v ELSE d[x]]

\* file.write(chunk) at the writer's own offset (pos, 1-based): the file grows
\* to hold it, a hole before it reads as zeros
WriteAt(content, pos, chunk) ==
    LET n == IF Len(content) > pos THEN Len(content) ELSE pos
    IN  [i \in 1..n |-> IF i = pos THEN chunk
                        ELSE IF i <= Len(content) THEN content[i] ELSE 0]

\* a build directory that does not exist
AbsentBuild ==
    [exists |-> FALSE, modsdir |-> FALSE, mods |-> EmptyDict,
     unreadable |-> {}, versions |-> {}, top |-> EmptyDict]

\* os.makedirs(build_path, exist_ok=True)
MakeBuildDir(d) == [d EXCEPT !.exists = TRUE]

\* os.makedirs(mods_directory, exist_ok=True): creates the parents too
MakeModsDir(d) == [d EXCEPT !.exists = TRUE, !.modsdir = TRUE]

\* the response.json() of list_mod: mod name -> digest of the body served
Manifest(b) == [m \in DOMAIN remote[b] |-> SHA256(remote[b][m])]

\* the body of download_fabric: ArchiveLen chunks
ArchiveBody == [i \in 1..ArchiveLen |-> 1]

\* a thread that has not been started
IdleRun ==
    [pc |-> "idle", server_name |-> "A", required_version |-> ArchiveVersion,
     vstep |-> "none", fetch |-> "none",
     remote_none |-> FALSE, remote_mods |-> EmptyDict, local_mods |-> EmptyDict,
     seen_local |-> {}, seen_remote |-> {},
     cur |-> "", total_size |-> 0, downloaded |-> 0,
     deleted |-> {}, requested |-> {}, kept |-> {}, written |-> {},
     succeeded |-> {}, interrupted |-> {}, failures |-> 0,
     exc |-> "", exc_in |-> "", alone |-> FALSE, dels |-> 0, clean |-> FALSE,
     nrequests |-> 0]

\* ------------------------------------------------------ decisions of the code

\* variant of Found: any installed version satisfies the gate
FoundAny(installed, required) == installed # {}

\* check_fabric_version: some installed version has id == required_version
Found(installed, required) == \E version \in installed : version = required

\* variant of RemoteModsDict: an empty dict instead of None on a failed fetch
RemoteModsDictEmpty(status, body) ==
    [none |-> FALSE, dict |-> IF status = "ok" THEN body ELSE EmptyDict]

\* get_remote_mods_dict: the parsed body on status 200, else None (the
\* function falls off its end)
RemoteModsDict(status, body) ==
    IF status = "ok" THEN [none |-> FALSE, dict |-> body]
    ELSE [none |-> TRUE, dict |-> EmptyDict]

\* check_mods, first loop: `local_mod not in remote_mods`
NotInRemote(local_mod, remote_mods) == local_mod \notin DOMAIN remote_mods

\* variant of NeedsDownload: every mod of the manifest is downloaded anew
NeedsDownloadAlways(local_hash, remote_hash) == TRUE

\* variant of NeedsDownload: only a missing mod is downloaded
NeedsDownloadMissing(local_hash, remote_hash) == local_hash = None

\* check_mods, second loop: `local_hash != remote_hash`
NeedsDownload(local_hash, remote_hash) == local_hash # remote_hash

\* variant of Caught: download_mod without its except clause
CaughtNothing(exc) == FALSE

\* download_mod: `except requests.exceptions.RequestException`
Caught(exc) == exc = "RequestException"

\* variant of DeletionsDone: downloads interleaved with the deletions
DeletionsSkipped(r) == TRUE

\* check_mods: the second loop starts when the first has iterated every key
\* of local_mods
DeletionsDone(r) == r.seen_local = DOMAIN r.local_mods

\* variant of OpenWb: the file opened without truncation
OpenKeep(files, name) == IF name \in DOMAIN files THEN files ELSE With(files, name, <<>>)

\* open(local_path, "wb"): the file is created, or truncated if it exists
OpenWb(files, name) == With(files, name, <<>>)

\* variant of AfterVersionStep: reconciliation only after a fresh install
AfterFreshInstall(vstep) ==
    IF vstep = "installed" THEN "launch" ELSE "check_mods"

\* run(): check_mods is the statement after check_fabric_version, whatever the
\* version step did short of raising
AfterVersionStep(vstep) == "check_mods"

\* variant of Raise: run() swallows the exception and goes on to the launch
RaiseSwallowed(r, exc, fn) ==
    [r EXCEPT !.pc = "launch", !.exc = exc, !.exc_in = fn]

\* an uncaught exception ends the thread
Raise(r, exc, fn) == [r EXCEPT !.pc = "crashed", !.exc = exc, !.exc_in = fn]

\* ---------------------------------------------------------------- actions

\* whether the thread is between its start and its end
InFlight(r) == r.pc \notin {"idle", "done", "crashed"}

\* the reconciliation pass of the thread ran to its end with no mod reported
\* as failed
CleanPass(r) == r.pc \in {"launch", "done"} /\ r.failures = 0

\* what is left of a thread that ended once a later call starts: its frame is
\* gone; kept are how it ended, its build, the delete_build count at its
\* start and whether its pass was clean
Ended(r) ==
    [IdleRun EXCEPT !.pc = r.pc, !.server_name = r.server_name,
                    !.dels = r.dels, !.clean = CleanPass(r)]

\* LauncherAPI.play_game -> Launcher.play_game: threading.Thread(target=run)
\* .start(), with no check of the threads already running
PlayGame(c, b, v) ==
    /\ run[c].pc = "idle"
    /\ \A d \in Calls : d < c => run[d].pc # "idle"
    /\ run' = [d \in Calls |->
                 IF d = c
                 THEN [IdleRun EXCEPT !.pc = "check_fabric_version",
                                      !.server_name = b,
                                      !.required_version = v,
                                      !.alone = \A e \in Calls : ~InFlight(run[e]),
                                      !.dels = deletes]
                 ELSE IF InFlight(run[d]) \/ run[d].pc = "idle" THEN run[d]
                 ELSE Ended(run[d])]
    /\ UNCHANGED <<fs, remote, deletes, last_delete>>

\* VersionManager.check_fabric_version up to the call of download_fabric_base
CheckFabricVersion(c) ==
    LET r == run[c]
        installed_versions == fs[r.server_name].versions
    IN  /\ r.pc = "check_fabric_version"
        /\ run' = [run EXCEPT ![c] =
                     IF Found(installed_versions, r.required_version)
                     THEN [r EXCEPT !.pc = AfterVersionStep("installed"),
                                    !.vstep = "installed"]
                     ELSE [r EXCEPT !.pc = "download_fabric_base"]]
        /\ UNCHANGED <<fs, remote, deletes, last_delete>>

\* VersionManager.download_fabric_base: makedirs, requests.get, open(zip, 'wb')
DownloadFabricBase(c) ==
    LET r == run[c]
        b == r.server_name
    IN  /\ r.pc = "download_fabric_base"
        /\ \E status \in {"ok", "http_error", "transport_error"},
              has_length \in BOOLEAN :
             /\ status # "ok" => has_length
             /\ CASE status = "transport_error" ->
                       /\ fs' = [fs EXCEPT ![b] = MakeBuildDir(@)]
                       /\ run' = [run EXCEPT ![c] =
                                    Raise([r EXCEPT !.vstep = "transport_error"],
                                          "RequestException",
                                          "download_fabric_base")]
                  [] status = "http_error" ->
                       /\ fs' = [fs EXCEPT ![b] = MakeBuildDir(@)]
                       /\ run' = [run EXCEPT ![c] =
                                    [r EXCEPT !.pc = AfterVersionStep("http_error"),
                                              !.vstep = "http_error"]]
                  [] OTHER ->
                       /\ fs' = [fs EXCEPT ![b] =
                                   [MakeBuildDir(@) EXCEPT
                                       !.top = OpenWb(@, ZipName)]]
                       /\ run' = [run EXCEPT ![c] =
                                    [r EXCEPT !.pc = "fabric_stream",
                                              !.total_size =
                                                  IF has_length
                                                  THEN Len(ArchiveBody) ELSE 0,
                                              !.downloaded = 0]]
        /\ UNCHANGED <<remote, deletes, last_delete>>

\* download_fabric_base: one turn of `for data in response.iter_content(1024)`
FabricStream(c) ==
    LET r == run[c]
        b == r.server_name
        pos == r.downloaded + 1
        \* the write reaches the directory entry only while the entry exists
        wrote == IF ZipName \in DOMAIN fs[b].top
                 THEN [fs EXCEPT ![b].top =
                         With(@, ZipName, WriteAt(@[ZipName], pos, ArchiveBody[pos]))]
                 ELSE fs
    IN  /\ r.pc = "fabric_stream"
        /\ \E ev \in {"chunk", "transport_error"} :
             IF ev = "transport_error"
             THEN /\ fs' = fs
                  /\ run' = [run EXCEPT ![c] =
                               Raise([r EXCEPT !.vstep = "transport_error",
                                               !.interrupted =
                                                   IF r.downloaded > 0
                                                   THEN @ \cup {ZipName} ELSE @],
                                     "RequestException", "download_fabric_base")]
             ELSE /\ fs' = wrote
                  /\ run' = [run EXCEPT ![c] =
                               IF r.total_size = 0
                               THEN Raise([r EXCEPT !.downloaded = pos,
                                                    !.vstep = "no_length"],
                                          "ZeroDivisionError",
                                          "download_fabric_base")
                               ELSE IF pos = Len(ArchiveBody)
                               THEN [r EXCEPT !.downloaded = pos, !.pc = "extract"]
                               ELSE [r EXCEPT !.downloaded = pos]]
        /\ UNCHANGED <<remote, deletes, last_delete>>

\* download_fabric_base: zipfile.ZipFile(...).extractall in its try/except, then
\* os.remove(local_zip_path) in its own try/except
Extract(c) ==
    LET r == run[c]
        b == r.server_name
    IN  /\ r.pc = "extract"
        /\ \E extracted \in BOOLEAN :
             \* a zip that is gone or was overwritten cannot be extracted; one
             \* that is whole may still be corrupt at the server
             /\ extracted => /\ ZipName \in DOMAIN fs[b].top
                              /\ fs[b].top[ZipName] = ArchiveBody
             /\ fs' = [fs EXCEPT ![b] =
                         [@ EXCEPT
                            !.versions =
                                IF extracted
                                THEN @ \cup {ArchiveVersion} ELSE @,
                            !.top = Without(@, ZipName)]]
             /\ run' = [run EXCEPT ![c] =
                          LET vstep == IF extracted THEN "ok"
                                       ELSE "extract_failed"
                          IN  [r EXCEPT !.pc = AfterVersionStep(vstep),
                                        !.vstep = vstep]]
        /\ UNCHANGED <<remote, deletes, last_delete>>

\* ModManager.check_mods: makedirs, then get_remote_mods_dict
GetRemoteModsDict(c) ==
    LET r == run[c]
        b == r.server_name
    IN  /\ r.pc = "check_mods"
        /\ fs' = [fs EXCEPT ![b] = MakeModsDir(@)]
        /\ \E status \in {"ok", "http_error", "transport_error"} :
             run' = [run EXCEPT ![c] =
                       IF status = "transport_error"
                       THEN Raise([r EXCEPT !.fetch = status],
                                  "RequestException", "get_remote_mods_dict")
                       ELSE [r EXCEPT !.pc = "get_local_mods_dict",
                                      !.fetch = status,
                                      !.remote_none =
                                          RemoteModsDict(status, Manifest(b)).none,
                                      !.remote_mods =
                                          RemoteModsDict(status, Manifest(b)).dict]]
        /\ UNCHANGED <<remote, deletes, last_delete>>

\* ModManager.get_local_mods_dict: iterdir, open and hash of every file
GetLocalModsDict(c) ==
    LET r == run[c]
        d == fs[r.server_name]
    IN  /\ r.pc = "get_local_mods_dict"
        /\ run' = [run EXCEPT ![c] =
                     IF ~d.modsdir
                     THEN Raise(r, "FileNotFoundError", "get_local_mods_dict")
                     ELSE IF d.unreadable # {}
                     THEN Raise(r, "PermissionError", "get_local_mods_dict")
                     ELSE [r EXCEPT !.pc = "reconcile",
                                    !.local_mods =
                                        [f \in DOMAIN d.mods |-> SHA256(d.mods[f])]]]
        /\ UNCHANGED <<fs, remote, deletes, last_delete>>

\* an exception raised inside download_mod's try: handled (the mod is reported
\* as failed and download_mod returns) or it ends the thread
Throw(r, exc, handled) ==
    IF Caught(exc)
    THEN [handled EXCEPT !.pc = "reconcile", !.failures = @ + 1]
    ELSE Raise(handled, exc, "download_mod")

\* check_mods: one turn of `for local_mod in list(local_mods.keys())`
DeleteStep(c, local_mod) ==
    LET r == run[c]
        b == r.server_name
        seen == [r EXCEPT !.seen_local = @ \cup {local_mod}]
    IN  /\ r.pc = "reconcile"
        /\ local_mod \in (DOMAIN r.local_mods) \ r.seen_local
        /\ IF r.remote_none
           THEN \* `in` applied to None
                /\ run' = [run EXCEPT ![c] = Raise(r, "TypeError", "check_mods")]
                /\ fs' = fs
           ELSE IF ~NotInRemote(local_mod, r.remote_mods)
           THEN /\ run' = [run EXCEPT ![c] = seen]
                /\ fs' = fs
           ELSE IF local_mod \notin DOMAIN fs[b].mods
           THEN \* os.remove of a file that is gone
                /\ run' = [run EXCEPT ![c] =
                             Raise(r, "FileNotFoundError", "check_mods")]
                /\ fs' = fs
           ELSE /\ run' = [run EXCEPT ![c] =
                             [seen EXCEPT !.deleted = @ \cup {local_mod}]]
                /\ fs' = [fs EXCEPT ![b].mods = Without(@, local_mod),
                                    ![b].unreadable = @ \ {local_mod}]
        /\ UNCHANGED <<remote, deletes, last_delete>>

\* check_mods: one turn of `for remote_mod, remote_hash in remote_mods.items()`
\* up to, in download_mod, requests.get and open(local_path, "wb")
DownloadStep(c, remote_mod) ==
    LET r == run[c]
        b == r.server_name
        remote_hash == r.remote_mods[remote_mod]
        local_hash == Get(r.local_mods, remote_mod)
        seen == [r EXCEPT !.seen_remote = @ \cup {remote_mod}]
        asked == [seen EXCEPT !.requested = @ \cup {remote_mod},
                              !.nrequests = @ + 1]
    IN  /\ r.pc = "reconcile"
        /\ DeletionsDone(r)
        /\ ~r.remote_none
        /\ remote_mod \in (DOMAIN r.remote_mods) \ r.seen_remote
        /\ IF ~NeedsDownload(local_hash, remote_hash)
           THEN /\ run' = [run EXCEPT ![c] = [seen EXCEPT !.kept = @ \cup {remote_mod}]]
                /\ fs' = fs
           ELSE \E status \in {"ok", "http_error", "transport_error"},
                   has_length \in BOOLEAN :
                  /\ status # "ok" => has_length
                  /\ CASE status = "transport_error" ->
                            /\ run' = [run EXCEPT ![c] =
                                         Throw(r, "RequestException", asked)]
                            /\ fs' = fs
                       [] status = "http_error" ->
                            /\ run' = [run EXCEPT ![c] =
                                         [asked EXCEPT !.failures = @ + 1]]
                            /\ fs' = fs
                       [] OTHER ->
                            IF ~fs[b].modsdir
                            THEN /\ run' = [run EXCEPT ![c] =
                                              Throw(r, "FileNotFoundError", asked)]
                                 /\ fs' = fs
                            ELSE /\ run' = [run EXCEPT ![c] =
                                              [asked EXCEPT
                                                 !.pc = "download_mod",
                                                 !.seen_remote = r.seen_remote,
                                                 !.cur = remote_mod,
                                                 !.written = @ \cup {remote_mod},
                                                 !.total_size =
                                                     IF has_length
                                                     THEN Len(remote[b][remote_mod])
                                                     ELSE 0,
                                                 !.downloaded = 0]]
                                 /\ fs' = [fs EXCEPT ![b].mods =
                                             OpenWb(@, remote_mod)]
        /\ UNCHANGED <<remote, deletes, last_delete>>

\* check_mods with remote_mods None and the first loop over: None.items()
NoneItems(c) ==
    LET r == run[c]
    IN  /\ r.pc = "reconcile"
        /\ DeletionsDone(r)
        /\ r.remote_none
        /\ run' = [run EXCEPT ![c] = Raise(r, "AttributeError", "check_mods")]
        /\ UNCHANGED <<fs, remote, deletes, last_delete>>

\* download_mod: one turn of `for chunk in response.iter_content(1024)`
ModStream(c) ==
    LET r == run[c]
        b == r.server_name
        mod_name == r.cur
        body == remote[b][mod_name]
        pos == r.downloaded + 1
        over == [r EXCEPT !.seen_remote = @ \cup {mod_name}, !.cur = ""]
        \* the write reaches the directory entry only while the entry exists
        wrote == IF mod_name \in DOMAIN fs[b].mods
                 THEN [fs EXCEPT ![b].mods =
                         With(@, mod_name, WriteAt(@[mod_name], pos, body[pos]))]
                 ELSE fs
    IN  /\ r.pc = "download_mod"
        /\ \E ev \in {"chunk", "transport_error"} :
             IF ev = "transport_error"
             THEN /\ fs' = fs
                  /\ run' = [run EXCEPT ![c] =
                               Throw(r, "RequestException",
                                     [over EXCEPT !.interrupted =
                                                      IF r.downloaded > 0
                                                      THEN @ \cup {mod_name}
                                                      ELSE @])]
             ELSE /\ fs' = wrote
                  /\ run' = [run EXCEPT ![c] =
                               IF r.total_size = 0
                               THEN Throw(r, "ZeroDivisionError",
                                          [r EXCEPT !.downloaded = pos])
                               ELSE IF pos = Len(body)
                               THEN [over EXCEPT !.downloaded = pos,
                                                 !.pc = "reconcile",
                                                 !.succeeded = @ \cup {mod_name}]
                               ELSE [r EXCEPT !.downloaded = pos]]
        /\ UNCHANGED <<remote, deletes, last_delete>>

\* check_mods returns: both loops are over; run() goes on to the launch
CheckModsReturn(c) ==
    LET r == run[c]
    IN  /\ r.pc = "reconcile"
        /\ DeletionsDone(r)
        /\ ~r.remote_none
        /\ r.seen_remote = DOMAIN r.remote_mods
        /\ run' = [run EXCEPT ![c].pc = "launch"]
        /\ UNCHANGED <<fs, remote, deletes, last_delete>>

\* run(): get_minecraft_command and subprocess.Popen
LaunchGame(c) ==
    /\ run[c].pc = "launch"
    /\ run' = [run EXCEPT ![c].pc = "done"]
    /\ UNCHANGED <<fs, remote, deletes, last_delete>>

\* variant of DeleteBuildResult: delete_build without its try/except
DeleteBuildRaises(exists) == IF exists THEN "removed" ELSE "raised"

\* delete_build: shutil.rmtree raises on a path that does not exist; `except
\* Exception` logs the error and delete_build returns
DeleteBuildResult(exists) == IF exists THEN "removed" ELSE "error_logged"

\* variant of DeleteBuild: rmtree of builds_path itself
DeleteBuildAll(b) ==
    /\ deletes < MaxDeletes
    /\ deletes' = deletes + 1
    /\ fs' = [x \in Builds |-> AbsentBuild]
    /\ last_delete' = [build |-> b, result |-> DeleteBuildResult(fs[b].exists)]
    /\ UNCHANGED <<remote, run>>

\* LauncherAPI.delete_build -> VersionManager.delete_build: shutil.rmtree in a
\* try/except that logs
DeleteBuild(b) ==
    /\ deletes < MaxDeletes
    /\ deletes' = deletes + 1
    /\ fs' = [fs EXCEPT ![b] = AbsentBuild]
    /\ last_delete' = [build |-> b, result |-> DeleteBuildResult(fs[b].exists)]
    /\ UNCHANGED <<remote, run>>

\* ------------------------------------------------------------ specifications

\* dicts over the mod names with values in S
Dicts(S) == UNION {[D -> S] : D \in SUBSET ModNames}

\* a build directory holding the mod files `mods`
BuildDir(mods, versions) ==
    [exists |-> TRUE, modsdir |-> TRUE, mods |-> mods, unreadable |-> {},
     versions |-> versions, top |-> EmptyDict]

\* one step of the thread of call c
ThreadStep(c) ==
    \/ CheckFabricVersion(c)
    \/ DownloadFabricBase(c)
    \/ FabricStream(c)
    \/ Extract(c)
    \/ GetRemoteModsDict(c)
    \/ GetLocalModsDict(c)
    \/ \E m \in ModNames : DeleteStep(c, m)
    \/ \E m \in ModNames : DownloadStep(c, m)
    \/ NoneItems(c)
    \/ ModStream(c)
    \/ CheckModsReturn(c)
    \/ LaunchGame(c)

\* Spec: the launcher driven from its page, one call at a time, on build A.
\* Build A starts absent, or holding any of a.jar and b.jar with either body
\* and no version, the required one or another one; one start has a file
\* that cannot be read.  The server lists b.jar and c.jar, or nothing.
InitFs ==
    {AbsentBuild}
    \cup {BuildDir(mods, versions) :
            mods \in UNION {[D -> Bodies] : D \in SUBSET {"a.jar", "b.jar"}},
            versions \in {{}, {ArchiveVersion}, {"fabric-2"}}}
    \cup {[BuildDir([m \in {"a.jar"} |-> <<1>>], {ArchiveVersion})
             EXCEPT !.unreadable = {"a.jar"}]}

InitRemote == [m \in {"b.jar", "c.jar"} |-> IF m = "b.jar" THEN <<1>> ELSE <<1, 2>>]

OtherBuild == BuildDir([m \in {"b.jar"} |-> <<1>>], {ArchiveVersion})

Init ==
    /\ \E d \in InitFs : fs = [b \in Builds |-> IF b = "A" THEN d ELSE OtherBuild]
    /\ \E R \in {InitRemote, EmptyDict} : remote = [b \in Builds |-> R]
    /\ run = [c \in Calls |-> IdleRun]
    /\ deletes = 0
    /\ last_delete = [build |-> "", result |-> "none"]

\* on_game_start hides the launcher page for the time of run() and on_game_end
\* shows it again; a thread that died leaves it hidden until the launcher is
\* restarted.  While it is hidden the page issues no call.
LauncherShown == \A c \in Calls : ~InFlight(run[c])

Next ==
    \/ \E c \in Calls : LauncherShown /\ PlayGame(c, "A", ArchiveVersion)
    \/ \E c \in Calls : ThreadStep(c)
    \/ LauncherShown /\ DeleteBuild("A")

Spec == Init /\ [][Next]_vars

\* SpecApi: the js_api called directly, at any time and on any build: play_game
\* and delete_build check nothing before they act.
InitApi ==
    /\ fs = [b \in Builds |->
               IF b = "A"
               THEN BuildDir([m \in {"a.jar"} |-> <<1>>], {ArchiveVersion})
               ELSE AbsentBuild]
    /\ remote = [b \in Builds |->
                   IF b = "A" THEN [m \in {"b.jar"} |-> <<1>>] ELSE EmptyDict]
    /\ run = [c \in Calls |-> IdleRun]
    /\ deletes = 0
    /\ last_delete = [build |-> "", result |-> "none"]

NextApi ==
    \/ \E c \in Calls, b \in Builds : PlayGame(c, b, ArchiveVersion)
    \/ \E c \in Calls : ThreadStep(c)
    \/ \E b \in Builds : DeleteBuild(b)

SpecApi == InitApi /\ [][NextApi]_vars

\* SpecPass: one call on build A, for every local mods directory and every
\* manifest over the mod names, with the required version installed or not.
InitPass ==
    /\ \E mods \in Dicts(Bodies), versions \in {{}, {ArchiveVersion}} :
         fs = [b \in Builds |->
                 IF b = "A" THEN BuildDir(mods, versions) ELSE OtherBuild]
    /\ \E R \in Dicts(Bodies) : remote = [b \in Builds |-> R]
    /\ run = [c \in Calls |-> IdleRun]
    /\ deletes = 0
    /\ last_delete = [build |-> "", result |-> "none"]

NextPass ==
    \/ LauncherShown /\ PlayGame(1, "A", ArchiveVersion)
    \/ ThreadStep(1)

SpecPass == InitPass /\ [][NextPass]_vars

\* ------------------------------------------------------------- properties

\* the decisions the reconciliation is specified to take, from the thread's
\* local inventory and the manifest it fetched
DeleteSet(r) == (DOMAIN r.local_mods) \ (DOMAIN r.remote_mods)
DownloadSet(r) ==
    {k \in DOMAIN r.remote_mods : Get(r.local_mods, k) # r.remote_mods[k]}
KeepSet(r) ==
    {k \in DOMAIN r.remote_mods : Get(r.local_mods, k) = r.remote_mods[k]}

\* check_mods has returned in the thread
PassCompleted(r) == r.pc = "launch"

\* the mods the pass reported as failed
FailedSet(r) == (r.requested \ r.succeeded) \ {r.cur}

\* C1: a pass decides Delete for exactly keys(L) - keys(R), Download for
\* exactly the keys of R whose local digest differs (or is missing) and Keep
\* for exactly the keys of R whose local digest is equal; the three sets are
\* pairwise disjoint and cover keys(L) with keys(R).  While the pass runs its
\* decisions stay within these sets.
C1_ReconciliationDecisions ==
    \A c \in Calls :
        LET r == run[c]
        IN  /\ r.deleted \subseteq DeleteSet(r)
            /\ r.fetch = "ok" => /\ r.requested \subseteq DownloadSet(r)
                                 /\ r.kept \subseteq KeepSet(r)
            /\ PassCompleted(r) =>
                 /\ r.deleted = DeleteSet(r)
                 /\ r.requested = DownloadSet(r)
                 /\ r.kept = KeepSet(r)
                 /\ r.deleted \cap r.requested = {}
                 /\ r.deleted \cap r.kept = {}
                 /\ r.requested \cap r.kept = {}
                 /\ r.deleted \cup r.requested \cup r.kept =
                        (DOMAIN r.local_mods) \cup (DOMAIN r.remote_mods)

\* a pass that ended having deleted, downloaded and kept
C1_Witness ==
    \E c \in Calls :
        /\ PassCompleted(run[c])
        /\ run[c].deleted # {}
        /\ run[c].kept # {}
        /\ run[c].requested # {}

\* C2: after a transfer was interrupted mid-stream, the destination holds no
\* partially written file: the mod file that was there before is there with
\* its content, or, for a new download, there is no file; the first run of a
\* build that had no base_fabric.zip leaves none.
C2_AtomicTransfer ==
    \A c \in Calls :
        LET r == run[c]
            d == fs[r.server_name]
        IN  (r.alone /\ deletes = r.dels) =>
              /\ \A m \in r.interrupted \cap ModNames :
                    IF m \in DOMAIN r.local_mods
                    THEN m \in DOMAIN d.mods /\ SHA256(d.mods[m]) = r.local_mods[m]
                    ELSE m \notin DOMAIN d.mods
              /\ (c = 1 /\ ZipName \in r.interrupted) => ZipName \notin DOMAIN d.top

C4_BootstrapFailureAborts ==
    \A c \in Calls :
        run[c].vstep \in {"http_error", "transport_error", "extract_failed"}
            => run[c].fetch = "none"

\* the run that follows run c-1 on the same build with no delete_build since
SucceedsRun(c) ==
    /\ c - 1 \in Calls
    /\ run[c].pc # "idle"
    /\ run[c].alone
    /\ run[c - 1].pc = "done"
    /\ run[c - 1].server_name = run[c].server_name
    /\ run[c - 1].dels = run[c].dels

\* C5: the second of two successive runs on a build, the manifest unchanged,
\* downloads no mod and deletes no mod.
C5_Idempotent ==
    \A c \in Calls :
        SucceedsRun(c) => run[c].requested = {} /\ run[c].deleted = {}

\* C5 as amended: the second of two successive runs on a build, the manifest
\* unchanged, downloads no mod and deletes no mod when the pass of the first
\* run ended with no download reported as failed.
C5_IdempotentAfterCleanPass ==
    \A c \in Calls :
        (SucceedsRun(c) /\ run[c - 1].clean) =>
            run[c].requested = {} /\ run[c].deleted = {}

\* a second pass ended, after a clean first one, having kept every mod of a
\* manifest that is not empty
C5_Witness ==
    \E c \in Calls :
        /\ SucceedsRun(c)
        /\ run[c - 1].clean
        /\ PassCompleted(run[c])
        /\ run[c].kept = DOMAIN run[c].remote_mods
        /\ run[c].kept # {}

\* the thread is in its version step or its mod step
Preparing(r) == InFlight(r) /\ r.pc # "launch"

\* C6: no two runs for one build name are in their version or mod steps at
\* the same time.
C6_SingleFlight ==
    \A c, d \in Calls :
        (c # d /\ Preparing(run[c]) /\ Preparing(run[d]))
            => run[c].server_name # run[d].server_name

\* C7: a pass whose manifest fetch did not succeed deletes no mod file and
\* writes none; a pass that deleted had fetched the manifest.
C7_NoDeletionWithoutManifest ==
    \A c \in Calls :
        LET r == run[c]
        IN  /\ r.fetch # "ok" => r.deleted = {} /\ r.written = {}
            /\ r.remote_none => r.fetch = "http_error"
            /\ (r.fetch = "http_error" /\ r.alone /\ deletes = r.dels
                    /\ r.pc # "get_local_mods_dict" /\ r.exc # "PermissionError")
                 => [f \in DOMAIN fs[r.server_name].mods |->
                        SHA256(fs[r.server_name].mods[f])] = r.local_mods

\* a pass that ended on a failed fetch with local mods in its inventory
C7_Witness ==
    \E c \in Calls :
        /\ run[c].fetch = "http_error"
        /\ run[c].pc = "crashed"
        /\ Cardinality(DOMAIN run[c].local_mods) = 2

\* C8: when the extraction of the archive fails, base_fabric.zip is not
\* deleted.
C8_ArchiveKeptOnFailure ==
    \A c \in Calls :
        (run[c].vstep = "extract_failed" /\ run[c].alone /\ deletes = run[c].dels)
            => ZipName \in DOMAIN fs[run[c].server_name].top

\* C9: when a pass has ended, the files of the mods directory are the manifest
\* names less the names whose download failed in the pass.
C9_ModsDirAfterPass ==
    \A c \in Calls :
        LET r == run[c]
        IN  (PassCompleted(r) /\ r.alone) =>
               DOMAIN fs[r.server_name].mods = (DOMAIN r.remote_mods) \ FailedSet(r)

\* C10: a pass requests no download before it has applied every deletion, and
\* once a download has failed every stale mod is gone from the directory.
C10_DeletionsFirst ==
    \A c \in Calls :
        LET r == run[c]
        IN  /\ (r.requested # {} \/ r.kept # {}) => r.deleted = DeleteSet(r)
            /\ (r.failures > 0 /\ r.alone /\ InFlight(r)) =>
                   DeleteSet(r) \cap DOMAIN fs[r.server_name].mods = {}

\* a download failed in a pass that had stale mods to delete
C10_Witness ==
    \E c \in Calls :
        /\ run[c].failures > 0
        /\ run[c].deleted # {}
        /\ InFlight(run[c])

\* C11: the version gate reports "installed" exactly when some installed
\* version id equals the required id, and the bootstrap is entered exactly when
\* the gate reports "not installed".
C11_VersionGate ==
    \A c \in Calls :
        LET r == run[c]
            installed == fs[r.server_name].versions
        IN  /\ r.pc = "download_fabric_base" => r.required_version \notin installed
            /\ (r.pc = "check_mods" /\ r.vstep = "installed") =>
                   r.required_version \in installed
            /\ r.pc \in {"download_fabric_base", "fabric_stream", "extract"} =>
                   r.vstep # "installed"

\* the gate sent a thread to the bootstrap although another version is installed
C11_Witness ==
    \E c \in Calls :
        /\ run[c].pc = "download_fabric_base"
        /\ fs[run[c].server_name].versions = Versions \ {run[c].required_version}

\* C12: delete_build never raises; on a build whose directory does not exist
\* it changes nothing, and in every case it leaves the directory absent, so a
\* second call right after a first one succeeds as well.
C12_DeleteBuildSafe ==
    /\ [](last_delete.result # "raised")
    /\ [][deletes' # deletes =>
             LET b == last_delete'.build
             IN  /\ fs'[b] = AbsentBuild
                 /\ ~fs[b].exists => (fs' = fs /\ last_delete'.result = "error_logged")
                 /\ fs[b].exists => last_delete'.result = "removed"]_vars

\* a build a thread had prepared was deleted twice in a row
C12_Witness ==
    /\ deletes = 2
    /\ last_delete.result = "error_logged"
    /\ run[1].pc \in {"done", "crashed"}
    /\ run[1].dels = 0
    /\ run[2].pc = "idle"
    /\ ~fs[run[1].server_name].exists

\* the steps of check_mods
ModsSteps == {"check_mods", "get_local_mods_dict", "reconcile", "download_mod"}

\* C13: the reconciliation starts only once the version step has returned, and
\* every thread whose version step returned runs it before it launches, also
\* when the version was already installed.
C13_VersionThenMods ==
    \A c \in Calls :
        LET r == run[c]
            returned == {"installed", "ok", "http_error", "extract_failed"}
        IN  /\ (r.pc \in ModsSteps \/ r.fetch # "none") => r.vstep \in returned
            /\ (r.vstep \in returned /\ InFlight(r)) =>
                   r.pc \in ModsSteps \cup {"launch"}
            /\ r.pc = "check_mods" => ENABLED GetRemoteModsDict(c)
            /\ (r.vstep \in returned /\ r.pc = "launch") => r.fetch = "ok"
            /\ (r.vstep \in returned /\ r.exc # "") => r.fetch # "none"

\* a thread that found its version installed is reconciling the mods
C13_Witness ==
    \E c \in Calls :
        /\ run[c].vstep = "installed"
        /\ run[c].pc = "reconcile"
        /\ run[c].fetch = "ok"

\* C14: a transfer whose 200 response has no (or a zero) Content-Length never
\* fails for that reason: no thread ends in the division by the total size.
C14_UnknownSizeCompletes ==
    \A c \in Calls :
        ~(run[c].pc = "crashed" /\ run[c].exc = "ZeroDivisionError")

\* C15: a local mod file that cannot be read does not abort the pass: no
\* thread ends in the listing of the mods directory.
C15_UnreadableTreatedAbsent ==
    \A c \in Calls :
        ~(run[c].pc = "crashed" /\ run[c].exc_in = "get_local_mods_dict")

\* every remote request the thread made was answered 200 and delivered, and
\* the archive it got could be extracted
AllRequestsSucceeded(r) ==
    /\ r.vstep \in {"installed", "ok", "no_length"}
    /\ r.fetch \in {"none", "ok"}
    /\ r.failures = 0
    /\ r.exc # "RequestException"

\* thread c retries on what a failed thread c - 1 left on the disk, and has
\* ended
RetryEnded(c) ==
    /\ c > 1
    /\ run[c - 1].server_name = run[c].server_name
    /\ run[c - 1].pc = "crashed" \/ (run[c - 1].pc = "done" /\ ~run[c - 1].clean)
    /\ run[c - 1].dels = run[c].dels /\ deletes = run[c].dels
    /\ fs[run[c].server_name].unreadable = {}
    /\ run[c].pc \in {"crashed", "launch"}

\* C16: a prepare that follows a failed one and whose every remote request
\* succeeds ends with the required version installed and the mods directory
\* equal to the manifest.
C16_RetrySafe ==
    \A c \in Calls :
        LET r == run[c]
            b == r.server_name
        IN  (RetryEnded(c) /\ AllRequestsSucceeded(r)) =>
               /\ r.pc = "launch"
               /\ r.required_version \in fs[b].versions
               /\ fs[b].mods = remote[b]

\* C17: whatever the interleaving, the directory tree of a build changes only
\* in a step of a thread started for that build or in a delete_build of that
\* build: operations on one build leave every other build's tree as it was.
C17_BuildIsolation ==
    [][\A b \in Builds :
           fs'[b] # fs[b] =>
              \/ deletes' # deletes /\ last_delete'.build = b
              \/ \E c \in Calls :
                    /\ run'[c] # run[c]
                    /\ InFlight(run[c])
                    /\ run[c].server_name = b]_vars

\* threads of two builds are at work at once, each in its own directory
C17_Witness ==
    \E c, d \in Calls :
        /\ run[c].server_name = "A" /\ run[d].server_name = "B"
        /\ InFlight(run[c]) /\ run[c].requested # {}
        /\ run[d].pc \in ModsSteps
        /\ fs["A"].exists /\ fs["B"].exists

\* C18: a mod the pass decided to keep is neither deleted, opened for writing
\* nor requested and stays on the disk as it was listed; the pass requests a
\* name at most once, and only names whose decision is Download.
C18_KeepUntouched ==
    \A c \in Calls :
        LET r == run[c]
            b == r.server_name
        IN  /\ r.kept \subseteq KeepSet(r)
            /\ r.kept \cap (r.deleted \cup r.requested \cup r.written) = {}
            /\ InFlight(r) =>
                  \A k \in r.kept :
                      /\ k \in DOMAIN fs[b].mods
                      /\ SHA256(fs[b].mods[k]) = r.local_mods[k]
            /\ r.requested \subseteq DownloadSet(r)
            /\ r.nrequests = Cardinality(r.requested)

\* a pass has returned that kept a mod and requested two others
C18_Witness ==
    \E c \in Calls :
        /\ PassCompleted(run[c])
        /\ run[c].kept # {}
        /\ run[c].nrequests = 2
        /\ run[c].succeeded # {}

\* C19: the game is launched only by a thread in which check_fabric_version
\* and check_mods have both returned, and a thread in which either raised
\* has ended and never launches.
C19_LaunchAfterPrepare ==
    /\ [](\A c \in Calls :
             LET r == run[c]
             IN  /\ r.pc = "launch" =>
                        /\ r.vstep \in {"installed", "ok", "http_error",
                                        "extract_failed"}
                        /\ r.fetch = "ok"
                        /\ r.seen_local = DOMAIN r.local_mods
                        /\ r.seen_remote = DOMAIN r.remote_mods
                        /\ r.cur = ""
                 /\ r.exc # "" => r.pc = "crashed")
    /\ [][\A c \in Calls :
             /\ (run'[c].pc = "done" /\ run[c].pc # "done") => run[c].pc = "launch"
             /\ run[c].pc = "crashed" => run'[c].pc = "crashed"]_vars

\* one thread has launched the game after a pass with downloads, and the
\* thread before it ended in an exception without launching
C19_Witness ==
    /\ run[1].pc = "crashed"
    /\ run[2].pc = "done"
    /\ run[2].fetch = "ok"
    /\ run[2].succeeded # {}

====
